---- MODULE Spec2Model ----
(***************************************************************************)
(* Model of ncbi_utils: the pickle disk cache (cache.py, cache_call in     *)
(* query_sra.py, _get_cached_request in fetch_sra.py) and the SRA download *)
(* helper (download_sra.py).                                               *)
(*                                                                         *)
(* Python values are records [type, chars]: the type of the object and the *)
(* characters of its str().  Byte strings, digests and file names are      *)
(* sequences of one-token strings.  MD5 is taken as collision-free: a      *)
(* hexdigest is represented by the bytes that were hashed.                 *)
(***************************************************************************)
EXTENDS Integers, Sequences, FiniteSets, TLC

\* ---------------------------------------------------------------- bounds
MaxArgs == 1
MaxFiles == 1

\* ---------------------------------------------------------------- values
Int1 == [type |-> "int", chars |-> <<"1">>]
Str1 == [type |-> "str", chars |-> <<"1">>]
Str11 == [type |-> "str", chars |-> <<"1", " ", "1">>]
UrlA == [type |-> "str", chars |-> <<"u", "a">>]
UrlB == [type |-> "str", chars |-> <<"u", "b">>]
BytesA == [type |-> "bytes", chars |-> <<"a">>]
BytesB == [type |-> "bytes", chars |-> <<"b">>]
List1 == [type |-> "list", chars |-> <<"[", "1", "]">>]
NoValue == [type |-> "none", chars |-> <<>>]
Raises == [type |-> "raise", chars |-> <<>>]

\* Int1 and Str1 have the same str(); Str11 holds the separator that
\* hash_from_tuple joins with; List1 is unhashable.
\* values the cached callable may return
Results == {Int1, Str1}
FunctNames == {"f", "g"}
\* keyword names, in the order sorted() gives them
KwOrder == <<"x", "y">>
KwNames == {KwOrder[i] : i \in DOMAIN KwOrder}
Urls == {UrlA, UrlB}
Contents == {BytesA, BytesB}
CacheDir == "cache"

RECURSIVE SeqsUpTo(_, _)
SeqsUpTo(S, n) ==
    IF n = 0 THEN {<<>>}
    ELSE LET shorter == SeqsUpTo(S, n - 1)
         IN shorter \cup {Append(s, x) : s \in {t \in shorter : Len(t) = n - 1}, x \in S}

RECURSIVE Concat(_)
Concat(ss) == IF ss = <<>> THEN <<>> ELSE Head(ss) \o Concat(Tail(ss))

\* str(value)
Str(v) == v.chars

\* hash(value) raises TypeError for a list
Hashable(v) == v.type # "list"

\* ---------------------------------------------------------------- pickle
PickleTag(v) == IF v.type = "int" THEN "K" ELSE IF v.type = "str" THEN "X"
                ELSE IF v.type = "bytes" THEN "C" ELSE "]"

\* pickle.dumps(value): protocol marker, opcode of the type, payload, STOP
PickleDumps(v) == <<"\\x80", PickleTag(v)>> \o v.chars \o <<".">>

\* where pickle.load stops reading: the first STOP opcode, 0 when there is none
PickleStop(b) ==
    LET stops == {i \in 1..Len(b) : b[i] = "."}
    IN IF stops = {} THEN 0 ELSE CHOOSE i \in stops : \A j \in stops : i <= j

\* the bytes hold a whole pickle; what follows its STOP is not read
PickleOk(b) == Len(b) >= 3 /\ b[1] = "\\x80" /\ PickleStop(b) >= 3

\* pickle.loads(bytes) of well-formed bytes
PickleLoads(b) ==
    [type |-> IF b[2] = "K" THEN "int" ELSE IF b[2] = "X" THEN "str"
              ELSE IF b[2] = "C" THEN "bytes" ELSE "list",
     chars |-> SubSeq(b, 3, PickleStop(b) - 1)]

\* pickle.dumps of a tuple of hexdigest strings
PickleDumpsDigests(hs) ==
    <<"\\x80", "(">> \o Concat([i \in 1..Len(hs) |-> <<"X">> \o hs[i]]) \o <<"t", ".">>

\* ---------------------------------------------------------------- gzip
GzipMagic == <<"\\x1f", "\\x8b">>
GzipWrap(b) == GzipMagic \o b \o <<"crc">>
IsGzip(b) == Len(b) >= 2 /\ SubSeq(b, 1, 2) = GzipMagic
\* the stream a reader gets out of the file: what follows the header; the
\* trailer comes after the STOP of the pickle, where pickle.load reads no more
GzipUnwrap(b) == SubSeq(b, 3, Len(b))

\* hashlib.md5(bytes).hexdigest(), collision-free
Md5(b) == b


\* ---------------------------------------------------------------- keys
\* " ".join(strs)
RECURSIVE Join(_)
Join(ss) ==
    IF ss = <<>> THEN <<>>
    ELSE IF Len(ss) = 1 THEN ss[1]
    ELSE ss[1] \o <<" ">> \o Join(Tail(ss))

\* cache.hash_from_tuple
hash_from_tuple(tuple_) == Md5(Join([i \in DOMAIN tuple_ |-> Str(tuple_[i])]))

\* query_sra._hash of a hashable value
hash_value(value) == Md5(PickleDumps(value))

\* kwargs is the dict in insertion order: a sequence of <<name, value>> with
\* distinct names
KwKeys(kwargs) == {kwargs[i][1] : i \in DOMAIN kwargs}
KwGet(kwargs, k) == kwargs[CHOOSE i \in DOMAIN kwargs : kwargs[i][1] = k][2]
InsertionKeys(kwargs) == [i \in DOMAIN kwargs |-> kwargs[i][1]]
\* sorted(kwargs.keys())
SortedKeys(kwargs) == SelectSeq(KwOrder, LAMBDA k : k \in KwKeys(kwargs))

\* the list `hashes` of cache_call
CallHashes(args, kwargs) ==
    LET keys == SortedKeys(kwargs)
    IN [i \in DOMAIN args |-> hash_value(args[i])]
       \o [i \in DOMAIN keys |-> hash_value(KwGet(kwargs, keys[i]))]

AnyUnhashable(args, kwargs) ==
    \/ \E i \in DOMAIN args : ~Hashable(args[i])
    \/ \E i \in DOMAIN kwargs : ~Hashable(kwargs[i][2])

\* cache_path of cache_call: cache_dir / funct.__name__ / str(hash_)
CallCachePath(dir, fname, args, kwargs) ==
    << <<dir>>, <<fname>>, Md5(PickleDumpsDigests(CallHashes(args, kwargs))) >>

Extension(use_gzip) == IF use_gzip THEN "pickle.gz" ELSE "pickle"

\* cache_path of get_cached_result_from_dir
DirCachePath(dir, fname, args, use_gzip) ==
    << <<dir>>, <<fname, ".">> \o hash_from_tuple(args) \o <<".", Extension(use_gzip)>> >>

\* cache_path of _get_cached_request
RequestCachePath(dir, url) ==
    << <<dir>>, <<"cached_request", ".">> \o hash_from_tuple(<<url>>) \o <<".", "pickle">> >>

\* cache paths a caller hands to save_cache, load_cache and get_result itself;
\* such a caller writes only once the directory of the path exists
DirectPaths == { << <<CacheDir>>, <<"direct", ".", "pickle">> >> }
NoPath == <<>>

\* ---------------------------------------------------------------- files
\* what save_cache writes; the handle it never closes is closed, and its
\* buffer flushed, when the function returns and drops the last reference
SaveBytes(value_, use_gzip) ==
    IF use_gzip THEN GzipWrap(PickleDumps(value_)) ELSE PickleDumps(value_)

Unpickle(b) ==
    IF PickleOk(b) THEN [outcome |-> "ok", ret |-> PickleLoads(b)]
    ELSE IF b = <<>> THEN [outcome |-> "EOFError", ret |-> NoValue]
    ELSE [outcome |-> "UnpicklingError", ret |-> NoValue]

\* what load_cache makes of the bytes of an existing file
LoadBytesGzipOnly(b) ==
    IF IsGzip(b) THEN Unpickle(GzipUnwrap(b))
    ELSE [outcome |-> "BadGzipFile", ret |-> NoValue]
LoadBytes(b) ==
    IF IsGzip(b) THEN Unpickle(GzipUnwrap(b)) ELSE Unpickle(b)

\* load_cache(cache_path) on the file system fs
load_cache(fs, cache_path) ==
    IF cache_path \notin DOMAIN fs
    THEN [outcome |-> "MissingCachedResult", ret |-> NoValue, read |-> FALSE]
    ELSE [outcome |-> LoadBytes(fs[cache_path]).outcome,
          ret |-> LoadBytes(fs[cache_path]).ret, read |-> TRUE]

\* the test of get_result that takes the read path
UseStoredAlways(update_cache, exists) == ~update_cache
UseStoredIgnoringFlag(update_cache, exists) == exists
UseStored(update_cache, exists) == ~update_cache /\ exists

\* get_result: r is what funct does when called (a value, or Raises)
get_resultStoresFailure(fs, cache_path, r, use_gzip, update_cache) ==
    IF UseStored(update_cache, cache_path \in DOMAIN fs)
    THEN [invoked |-> 0, outcome |-> load_cache(fs, cache_path).outcome,
          ret |-> load_cache(fs, cache_path).ret, write |-> FALSE, bytes |-> <<>>]
    ELSE IF r = Raises
    THEN [invoked |-> 1, outcome |-> "Exception", ret |-> NoValue,
          write |-> TRUE, bytes |-> SaveBytes(NoValue, use_gzip)]
    ELSE [invoked |-> 1, outcome |-> "ok", ret |-> r,
          write |-> TRUE, bytes |-> SaveBytes(r, use_gzip)]
get_result(fs, cache_path, r, use_gzip, update_cache) ==
    IF UseStored(update_cache, cache_path \in DOMAIN fs)
    THEN [invoked |-> 0, outcome |-> load_cache(fs, cache_path).outcome,
          ret |-> load_cache(fs, cache_path).ret, write |-> FALSE, bytes |-> <<>>]
    ELSE IF r = Raises
    THEN [invoked |-> 1, outcome |-> "Exception", ret |-> NoValue,
          write |-> FALSE, bytes |-> <<>>]
    ELSE [invoked |-> 1, outcome |-> "ok", ret |-> r,
          write |-> TRUE, bytes |-> SaveBytes(r, use_gzip)]


\* ---------------------------------------------------------------- state
VARIABLES
    files,   \* the cache files: path -> bytes
    dirs,    \* the directories that exist
    meta,    \* history of each file: the value saved in it and who wrote it
    last,    \* the last operation: its inputs, what it did, how it ended
    keyrun,  \* two key derivations of the same function, side by side
    dl,      \* one run of download_fastq_from_sra
    fetch,   \* one call of a function that asks NCBI for a record
    conc     \* two processes that call the cache for the same key

vars == <<files, dirs, meta, last, keyrun, dl, fetch, conc>>

Exists(p) == p \in DOMAIN files
Put(f, p, x) == [q \in DOMAIN f \cup {p} |-> IF q = p THEN x ELSE f[q]]
Min(a, b) == IF a < b THEN a ELSE b

\* the model keeps at most MaxFiles cache files
Room(p) == Exists(p) \/ Cardinality(DOMAIN files) < MaxFiles

NoMeta == [value |-> NoValue, calls |-> 0, first |-> NoValue, clean |-> TRUE]
MetaOf(p) == IF p \in DOMAIN meta THEN meta[p] ELSE NoMeta

\* the history of p after value v was written to it; plain: by a call that
\* did not force a refresh and is no explicit save_cache
MetaAfterWrite(p, v, plain) ==
    IF plain
    THEN [value |-> v, calls |-> Min(MetaOf(p).calls + 1, 2),
          first |-> IF MetaOf(p).calls = 0 THEN v ELSE MetaOf(p).first,
          clean |-> MetaOf(p).clean]
    ELSE [value |-> v, calls |-> MetaOf(p).calls, first |-> MetaOf(p).first,
          clean |-> FALSE]

NoLast ==
    [op |-> "none", path |-> NoPath, existed |-> FALSE, update |-> FALSE,
     gz |-> FALSE, invoked |-> 0, outcome |-> "ok", ret |-> NoValue,
     r |-> NoValue, unhashable |-> FALSE, wrote |-> FALSE, changed |-> FALSE]

\* the state after an operation on path p with effect e (a get_result record)
\* that first made the directories mk
Finish(op, p, e, mk, update, gz, r, plain, unhashable) ==
    /\ files' = IF e.write THEN Put(files, p, e.bytes) ELSE files
    /\ meta' = IF e.write THEN Put(meta, p, MetaAfterWrite(p, r, plain)) ELSE meta
    /\ dirs' = dirs \cup mk
    /\ last' = [op |-> op, path |-> p, existed |-> Exists(p), update |-> update,
                gz |-> e.write /\ gz, invoked |-> e.invoked, outcome |-> e.outcome,
                ret |-> e.ret, r |-> IF e.invoked = 1 THEN r ELSE NoValue,
                unhashable |-> unhashable,
                wrote |-> e.write,
                changed |-> e.write \/ ~(mk \subseteq dirs)]

\* an operation that raised before it touched anything
Rejected(op, outcome, unhashable) ==
    /\ UNCHANGED <<files, dirs, meta>>
    /\ last' = [NoLast EXCEPT !.op = op, !.outcome = outcome,
                              !.unhashable = unhashable]

\* ---------------------------------------------------------------- cache.py
\* save_cache(value_, cache_path, use_gzip)
SaveCache(value_, cache_path, use_gzip) ==
    /\ <<CacheDir>> \in dirs
    /\ Room(cache_path)
    /\ Finish("save_cache", cache_path,
              [invoked |-> 0, outcome |-> "ok", ret |-> NoValue, write |-> TRUE,
               bytes |-> SaveBytes(value_, use_gzip)],
              {}, FALSE, use_gzip, value_, FALSE, FALSE)
    /\ UNCHANGED <<keyrun, dl, fetch, conc>>

\* load_cache(cache_path)
LoadCache(cache_path) ==
    /\ Finish("load_cache", cache_path,
              [invoked |-> 0, outcome |-> load_cache(files, cache_path).outcome,
               ret |-> load_cache(files, cache_path).ret, write |-> FALSE,
               bytes |-> <<>>],
              {}, FALSE, FALSE, NoValue, FALSE, FALSE)
    /\ UNCHANGED <<keyrun, dl, fetch, conc>>

\* get_result(funct, cache_path, use_gzip=..., update_cache=...)
GetResult(r, cache_path, use_gzip, update_cache) ==
    /\ <<CacheDir>> \in dirs
    /\ Room(cache_path)
    /\ Finish("get_result", cache_path,
              get_result(files, cache_path, r, use_gzip, update_cache),
              {}, update_cache, use_gzip, r, ~update_cache, FALSE)
    /\ UNCHANGED <<keyrun, dl, fetch, conc>>

\* the use_gzip that get_cached_result_from_dir hands to get_result: none, so
\* get_result's default
PassedGzip(use_gzip) == FALSE

\* get_cached_result_from_dir(funct, cache_dir, args, update_cache, use_gzip)
GetCachedResultFromDir(fname, r, args, update_cache, use_gzip) ==
    LET cache_path == DirCachePath(CacheDir, fname, args, use_gzip)
    IN /\ Room(cache_path)
       /\ Finish("get_cached_result_from_dir", cache_path,
                 get_result(files, cache_path, r, PassedGzip(use_gzip), update_cache),
                 {<<CacheDir>>}, update_cache, use_gzip, r, ~update_cache,
                 AnyUnhashable(args, <<>>))
       /\ UNCHANGED <<keyrun, dl, fetch, conc>>


\* ---------------------------------------------------------------- query_sra.py
\* the test of cache_call that takes the read path
CallUseStoredNever(exists) == FALSE
CallUseStored(exists) == exists

\* the body of cache_call once the path is known: raw pickle both ways
cache_call(fs, cache_path, r) ==
    IF CallUseStored(cache_path \in DOMAIN fs)
    THEN [invoked |-> 0, outcome |-> Unpickle(fs[cache_path]).outcome,
          ret |-> Unpickle(fs[cache_path]).ret, write |-> FALSE, bytes |-> <<>>]
    ELSE IF r = Raises
    THEN [invoked |-> 1, outcome |-> "Exception", ret |-> NoValue,
          write |-> FALSE, bytes |-> <<>>]
    ELSE [invoked |-> 1, outcome |-> "ok", ret |-> r,
          write |-> TRUE, bytes |-> PickleDumps(r)]

\* cache_call(funct, cache_dir, args, kwargs)
CacheCall(fname, r, args, kwargs) ==
    LET cache_path == CallCachePath(CacheDir, fname, args, kwargs)
    IN /\ IF AnyUnhashable(args, kwargs)
          THEN Rejected("cache_call", "ValueError", TRUE)
          ELSE /\ Room(cache_path)
               /\ Finish("cache_call", cache_path, cache_call(files, cache_path, r),
                         {<<CacheDir>>, <<CacheDir, fname>>}, FALSE, FALSE, r, TRUE,
                         FALSE)
       /\ UNCHANGED <<keyrun, dl, fetch, conc>>

\* ---------------------------------------------------------------- fetch_sra.py
HttpOk == 200
StatusCodes == {HttpOk, 500}

\* the test of _get_cached_request that takes the read path
RequestUseStoredNever(use_cache, exists) == FALSE
RequestUseStored(use_cache, exists) == use_cache /\ exists

\* _get_cached_request(url, cache_dir): requests.get answers status, content
GetCachedRequest(url, use_cache, status, content) ==
    LET cache_path == IF use_cache THEN RequestCachePath(CacheDir, url) ELSE NoPath
        hit == RequestUseStored(use_cache, Exists(cache_path))
        r == IF status = HttpOk THEN content ELSE Raises
    IN /\ use_cache => Room(cache_path)
       /\ IF hit
          THEN Finish("_get_cached_request", cache_path,
                      [invoked |-> 0, outcome |-> load_cache(files, cache_path).outcome,
                       ret |-> load_cache(files, cache_path).ret, write |-> FALSE,
                       bytes |-> <<>>],
                      {}, FALSE, FALSE, r, TRUE, FALSE)
          ELSE IF status # HttpOk
          THEN Finish("_get_cached_request", cache_path,
                      [invoked |-> 1, outcome |-> "AssertionError", ret |-> NoValue,
                       write |-> FALSE, bytes |-> <<>>],
                      {}, FALSE, FALSE, r, TRUE, FALSE)
          ELSE Finish("_get_cached_request", cache_path,
                      [invoked |-> 1, outcome |-> "ok", ret |-> content,
                       write |-> use_cache, bytes |-> SaveBytes(content, FALSE)],
                      IF use_cache THEN {<<CacheDir>>} ELSE {},
                      FALSE, FALSE, r, TRUE, FALSE)
       /\ UNCHANGED <<keyrun, dl, fetch, conc>>

\* ---------------------------------------------------------------- Spec
\* the calls of the sequential cache run: zero or one positional argument,
\* zero or one keyword argument
CallValues == {Int1, List1}
CallArgs == {<<>>} \cup {<<v>> : v \in CallValues}
CallKwargs == {<<>>} \cup {<< <<k, v>> >> : k \in KwNames, v \in CallValues}
\* the one function whose calls the run caches
Funct == "f"
Behaviours == Results \cup {Raises}

NoKeyRun == [stage |-> "off"]
DlBlank(pc) ==
    [pc |-> pc, acc |-> <<>>, kind |-> "missing", entries |-> {}, before |-> {},
     work |-> FALSE, made |-> FALSE, procs |-> <<>>, fast |-> {}, todo |-> {},
     outcome |-> "none", conv |-> {}, out |-> "", err |-> "",
     msg |-> [cmd |-> FALSE, stdout |-> "", stderr |-> ""]]
NoDownload == DlBlank("off")
NoResponse == [shape |-> "none"]
FetchBlank(pc) ==
    [pc |-> pc, fn |-> "none", id |-> <<>>, outcome |-> "none", requested |-> FALSE,
     status |-> 0, resp |-> NoResponse, ret |-> NoValue]
NoFetch == FetchBlank("off")
NoConc == [pc |-> "off"]

Init ==
    /\ files = <<>>
    /\ meta = <<>>
    /\ dirs = {}
    /\ last = NoLast
    /\ keyrun = NoKeyRun
    /\ dl = NoDownload
    /\ fetch = NoFetch
    /\ conc = NoConc

Next ==
    \/ \E v \in Results, p \in DirectPaths, gz \in BOOLEAN : SaveCache(v, p, gz)
    \/ \E p \in DirectPaths \cup DOMAIN files : LoadCache(p)
    \/ \E r \in Behaviours, p \in DirectPaths, gz \in BOOLEAN, up \in BOOLEAN :
          GetResult(r, p, gz, up)
    \/ \E r \in Behaviours, a \in CallArgs, up \in BOOLEAN, gz \in BOOLEAN :
          GetCachedResultFromDir(Funct, r, a, up, gz)
    \/ \E r \in Behaviours, a \in CallArgs, kw \in CallKwargs :
          CacheCall(Funct, r, a, kw)
    \/ \E u \in Urls, c \in BOOLEAN, st \in StatusCodes, b \in Contents :
          GetCachedRequest(u, c, st, b)

Spec == Init /\ [][Next]_vars


\* ---------------------------------------------------------------- SpecKey
\* Two calls of the same function through the same entry point, and the cache
\* path each is given.
KeyValues == {Int1, Str1, Str11}
KwValues == {Int1, Str1}
KeyArgs == SeqsUpTo(KeyValues, MaxArgs)
\* every dict over KwNames, in every insertion order
KeyKwargs ==
    {kw \in SeqsUpTo(KwNames \X KwValues, Cardinality(KwNames)) :
        \A i, j \in DOMAIN kw : kw[i][1] = kw[j][1] => i = j}
KeyKinds == {"cache_call", "get_cached_result_from_dir"}

KeyCall(kind, args, kwargs, use_gzip) ==
    [args |-> args, kwargs |-> kwargs, gz |-> use_gzip,
     hash |-> IF kind = "cache_call"
              THEN Md5(PickleDumpsDigests(CallHashes(args, kwargs)))
              ELSE hash_from_tuple(args),
     path |-> IF kind = "cache_call"
              THEN CallCachePath(CacheDir, keyrun.fname, args, kwargs)
              ELSE DirCachePath(CacheDir, keyrun.fname, args, use_gzip)]

KeyInputs(kind, kwargs, use_gzip) ==
    IF kind = "cache_call" THEN use_gzip = FALSE ELSE kwargs = <<>>

KeyStart(kind, fname) ==
    /\ keyrun.stage = "idle"
    /\ keyrun' = [stage |-> "start", kind |-> kind, fname |-> fname]
    /\ UNCHANGED <<files, dirs, meta, last, dl, fetch, conc>>

KeyFirst(args, kwargs, use_gzip) ==
    /\ keyrun.stage = "start"
    /\ KeyInputs(keyrun.kind, kwargs, use_gzip)
    /\ keyrun' = [stage |-> "one", kind |-> keyrun.kind, fname |-> keyrun.fname,
                  a |-> KeyCall(keyrun.kind, args, kwargs, use_gzip)]
    /\ UNCHANGED <<files, dirs, meta, last, dl, fetch, conc>>

KeySecond(args, kwargs, use_gzip) ==
    /\ keyrun.stage = "one"
    /\ KeyInputs(keyrun.kind, kwargs, use_gzip)
    /\ keyrun' = [stage |-> "two", kind |-> keyrun.kind, fname |-> keyrun.fname,
                  a |-> keyrun.a,
                  b |-> KeyCall(keyrun.kind, args, kwargs, use_gzip)]
    /\ UNCHANGED <<files, dirs, meta, last, dl, fetch, conc>>

InitKey ==
    /\ files = <<>>
    /\ meta = <<>>
    /\ dirs = {}
    /\ last = NoLast
    /\ keyrun = [stage |-> "idle"]
    /\ dl = NoDownload
    /\ fetch = NoFetch
    /\ conc = NoConc

NextKey ==
    \/ \E k \in KeyKinds, f \in FunctNames : KeyStart(k, f)
    \/ \E a \in KeyArgs, kw \in KeyKwargs, gz \in BOOLEAN : KeyFirst(a, kw, gz)
    \/ \E a \in KeyArgs, kw \in KeyKwargs, gz \in BOOLEAN : KeySecond(a, kw, gz)

SpecKey == InitKey /\ [][NextKey]_vars


\* ---------------------------------------------------------------- download_sra.py
\* File names and run accessions are sequences of characters.
RunAccs == {<<"R", "1">>, <<"R", "2">>}
\* names that may already be in out_dir
OldNames == {<<"R", "1", ".", "f">>, <<"R", "1", "2">>, <<"x">>}
\* what fasterq-dump --split-3 leaves in the fast directory for accession acc
FastOutputs(acc) == {{acc \o <<".", "f">>}, {acc \o <<"_", "1">>, acc \o <<"_", "2">>}}
ExitCodes == {0, 1}
\* what a subprocess may leave on its captured stdout and on its stderr
StdoutTexts == {"o1", "o2"}
StderrTexts == {"e1", "e2"}

\* the message of the RuntimeError raised after prefetch or vdb-validate:
\* the command, then process.stdout after "stdout:" and again after "stderr:"
FailureMessage(out, err) == [cmd |-> TRUE, stdout |-> out, stderr |-> out]
\* the message of the TypeError that CalledProcessError(msg) ends in
TypeErrorMessage == [cmd |-> FALSE, stdout |-> "", stderr |-> ""]

\* run(cmd, check=True) raises CalledProcessError on this returncode
CheckedFailureNever(rc) == FALSE
CheckedFailure(rc) == rc # 0

\* str.startswith
StartsWithWhole(name, prefix) == name = prefix
StartsWith(name, prefix) ==
    Len(name) >= Len(prefix) /\ SubSeq(name, 1, Len(prefix)) = prefix

\* previous_downloaded_files, as a set
PreviousDownloaded(entries, run_acc) == {n \in entries : StartsWith(n, run_acc)}

\* the checks of download_fastq_from_sra before its with block
DownloadCheck(kind, entries, run_acc) ==
    IF kind = "missing" THEN "ValueError"
    ELSE IF kind # "dir" THEN "ValueError"
    ELSE IF PreviousDownloaded(entries, run_acc) # {} THEN "RuntimeError"
    ELSE "ok"

DlEnd(outcome) ==
    [dl EXCEPT !.pc = "done", !.outcome = outcome, !.work = FALSE, !.fast = {},
               !.todo = {}]

\* a subprocess failed with these streams and the call raised outcome with msg
DlFail(name, rc, out, err, outcome, msg) ==
    [DlEnd(outcome) EXCEPT !.procs = Append(dl.procs, <<name, rc>>), !.out = out,
                            !.err = err, !.msg = msg]

\* download_fastq_from_sra(run_acc, out_dir) is called; kind and entries are
\* what out_dir is at that moment
DlCall(run_acc, kind, entries) ==
    /\ dl.pc = "idle"
    /\ kind # "dir" => entries = {}
    /\ LET check == DownloadCheck(kind, entries, run_acc)
       IN dl' = [DlBlank(IF check = "ok" THEN "tempdir" ELSE "done") EXCEPT
                    !.acc = run_acc, !.kind = kind, !.entries = entries,
                    !.before = entries,
                    !.outcome = IF check = "ok" THEN "running" ELSE check]
    /\ UNCHANGED <<files, dirs, meta, last, keyrun, fetch, conc>>

\* tempfile.TemporaryDirectory(...) is entered
DlTempDir ==
    /\ dl.pc = "tempdir"
    /\ dl' = [dl EXCEPT !.pc = "prefetch", !.work = TRUE, !.made = TRUE]
    /\ UNCHANGED <<files, dirs, meta, last, keyrun, fetch, conc>>

DlRan(name, rc) == Append(dl.procs, <<name, rc>>)

\* run(prefetch); a non-zero returncode raises RuntimeError
DlPrefetch(rc, out, err) ==
    /\ dl.pc = "prefetch"
    /\ dl' = IF rc # 0
             THEN DlFail("prefetch", rc, out, err, "RuntimeError",
                         FailureMessage(out, err))
             ELSE [dl EXCEPT !.pc = "validate", !.procs = DlRan("prefetch", rc)]
    /\ UNCHANGED <<files, dirs, meta, last, keyrun, fetch, conc>>

\* run(vdb-validate); a non-zero returncode raises RuntimeError
DlValidate(rc, out, err) ==
    /\ dl.pc = "validate"
    /\ dl' = IF rc # 0
             THEN DlFail("vdb-validate", rc, out, err, "RuntimeError",
                         FailureMessage(out, err))
             ELSE [dl EXCEPT !.pc = "fasterq", !.procs = DlRan("vdb-validate", rc)]
    /\ UNCHANGED <<files, dirs, meta, last, keyrun, fetch, conc>>

\* run(fasterq-dump, check=True); on CalledProcessError the handler calls
\* CalledProcessError(msg), which lacks the cmd argument: TypeError
DlFasterq(rc, made, out, err) ==
    /\ dl.pc = "fasterq"
    /\ made \in FastOutputs(dl.acc)
    /\ dl' = IF CheckedFailure(rc)
             THEN DlFail("fasterq-dump", rc, out, err, "TypeError", TypeErrorMessage)
             ELSE [dl EXCEPT !.pc = "gzip", !.procs = DlRan("fasterq-dump", rc),
                             !.fast = made, !.todo = made, !.conv = made]
    /\ UNCHANGED <<files, dirs, meta, last, keyrun, fetch, conc>>

\* one turn of the first loop: run(pigz path, check=True)
DlGzip(path, rc) ==
    /\ dl.pc = "gzip"
    /\ path \in dl.todo
    /\ dl' = IF CheckedFailure(rc)
             THEN [DlEnd("CalledProcessError") EXCEPT !.procs = DlRan("pigz", rc)]
             ELSE LET fast == (dl.fast \ {path}) \cup {path \o <<".", "g", "z">>}
                      todo == dl.todo \ {path}
                  IN [dl EXCEPT !.procs = DlRan("pigz", rc), !.fast = fast,
                                !.pc = IF todo = {} THEN "mv" ELSE "gzip",
                                !.todo = IF todo = {} THEN fast ELSE todo]
    /\ UNCHANGED <<files, dirs, meta, last, keyrun, fetch, conc>>

\* one turn of the second loop: run(mv path out_dir), its returncode unread;
\* after the last turn the with block ends and the function returns
DlMv(path, rc) ==
    /\ dl.pc = "mv"
    /\ path \in dl.todo
    /\ LET todo == dl.todo \ {path}
           moved == [dl EXCEPT !.procs = DlRan("mv", rc), !.todo = todo,
                               !.fast = IF rc = 0 THEN dl.fast \ {path} ELSE dl.fast,
                               !.entries = IF rc = 0 THEN dl.entries \cup {path}
                                           ELSE dl.entries]
       IN dl' = IF todo = {}
                THEN [moved EXCEPT !.pc = "done", !.outcome = "ok", !.work = FALSE,
                                   !.fast = {}]
                ELSE moved
    /\ UNCHANGED <<files, dirs, meta, last, keyrun, fetch, conc>>

InitDownload ==
    /\ files = <<>>
    /\ meta = <<>>
    /\ dirs = {}
    /\ last = NoLast
    /\ keyrun = NoKeyRun
    /\ dl = DlBlank("idle")
    /\ fetch = NoFetch
    /\ conc = NoConc

NextDownload ==
    \/ \E acc \in RunAccs, kind \in {"missing", "file", "dir"}, es \in SUBSET OldNames :
          DlCall(acc, kind, es)
    \/ DlTempDir
    \/ \E rc \in ExitCodes, out \in StdoutTexts, err \in StderrTexts :
          DlPrefetch(rc, out, err)
    \/ \E rc \in ExitCodes, out \in StdoutTexts, err \in StderrTexts :
          DlValidate(rc, out, err)
    \/ \E rc \in ExitCodes, made \in UNION {FastOutputs(a) : a \in RunAccs},
          out \in StdoutTexts, err \in StderrTexts : DlFasterq(rc, made, out, err)
    \/ \E rc \in ExitCodes, path \in dl.todo : DlGzip(path, rc)
    \/ \E rc \in ExitCodes, path \in dl.todo : DlMv(path, rc)

SpecDownload == InitDownload /\ [][NextDownload]_vars


\* ================================================================ NCBI queries
\* ---------------------------------------------------------------- ids
Digits == {"0", "1", "2", "3", "4", "5", "6", "7", "8", "9"}
Whitespace == {" "}
Signs == {"+", "-"}

\* str.lower() on the letters the ids of the run are written with
LowerChar(c) ==
    CASE c = "P" -> "p" [] c = "R" -> "r" [] c = "J" -> "j" [] c = "S" -> "s"
      [] c = "X" -> "x" [] OTHER -> c
lower(s) == [i \in 1..Len(s) |-> LowerChar(s[i])]

\* str.isdigit(): not empty and nothing but digits
isdigit(s) == Len(s) > 0 /\ \A i \in 1..Len(s) : s[i] \in Digits

\* int(s) does not raise ValueError: blanks around, one sign, then digits
\* that single underscores may separate
Strip(s) ==
    LET inked == {i \in 1..Len(s) : s[i] \notin Whitespace}
    IN IF inked = {} THEN <<>>
       ELSE SubSeq(s, CHOOSE i \in inked : \A j \in inked : i <= j,
                      CHOOSE i \in inked : \A j \in inked : i >= j)
Unsigned(s) == IF Len(s) > 0 /\ s[1] \in Signs THEN Tail(s) ELSE s
IntLiteral(s) ==
    /\ Len(s) > 0
    /\ \A i \in 1..Len(s) : s[i] \in Digits \cup {"_"}
    /\ s[1] # "_" /\ s[Len(s)] # "_"
    /\ \A i \in 1..(Len(s) - 1) : ~(s[i] = "_" /\ s[i + 1] = "_")
IntParses(s) == IntLiteral(Unsigned(Strip(s)))

\* the functions that take a numeric id
DigitChecked ==
    {"query_sra.fetch_bioproject_acc_for_experiment", "query_sra.fetch_bioproject_info"}
PrjChecked ==
    {"fetch_sra._fetch_bioproject_info_with_id",
     "fetch_sra.ask_ncbi_for_biosample_ids_in_bioproject",
     "fetch_sra.fetch_biosample_info_with_id",
     "fetch_sra.fetch_sra_info",
     "query_sra.ask_ncbi_for_biosample_ids_in_bioproject",
     "query_sra.fetch_biosample_info"}
IdFunctions == DigitChecked \cup PrjChecked \cup {"query_sra.fetch_experiment_info"}

\* the accession prefix the function looks for before it tries int()
RejectedPrefix(fn) ==
    IF fn = "query_sra.fetch_experiment_info" THEN <<"s">> ELSE <<"p", "r", "j">>

\* the check of the id at the head of each function: how it ends
ValidateId(fn, id) ==
    IF fn \in DigitChecked
    THEN IF isdigit(id) THEN "ok" ELSE "RuntimeError"
    ELSE IF StartsWith(lower(id), RejectedPrefix(fn)) THEN "ValueError"
    ELSE IF ~IntParses(id) THEN "ValueError"
    ELSE "ok"

\* how each function takes a response whose status is not 200
StatusAsserted ==
    {"query_sra.fetch_bioproject_acc_for_experiment",
     "fetch_sra._fetch_bioproject_info_with_id",
     "fetch_sra.ask_ncbi_for_biosample_ids_in_bioproject",
     "fetch_sra.fetch_biosample_info_with_id",
     "fetch_sra.fetch_sra_info"}
StatusUnchecked == {"query_sra.fetch_experiment_info"}
BadStatus(fn) ==
    IF fn \in StatusUnchecked THEN "ok"
    ELSE IF fn \in StatusAsserted THEN "AssertionError"
    ELSE "RuntimeError"

\* ---------------------------------------------------------------- esearch
MaxIds == 2
SearchIds == {<<"1", "2">>, <<"x">>}
\* the JSON of an esearch answer: no esearchresult key, an empty
\* esearchresult, one without idlist, or one with an idlist
SearchResponses ==
    {[shape |-> k, idlist |-> <<>>] : k \in {"absent", "empty", "noidlist"}}
    \cup {[shape |-> "idlist", idlist |-> l] : l \in SeqsUpTo(SearchIds, MaxIds)}

\* _search_id_with(url, acc, db), given the answer of requests.get
search_id_with(status, resp) ==
    IF status # HttpOk THEN [outcome |-> "AssertionError", ret |-> NoValue]
    ELSE IF resp.shape = "absent" THEN [outcome |-> "KeyError", ret |-> NoValue]
    ELSE IF resp.shape = "empty" THEN [outcome |-> "ValueError", ret |-> NoValue]
    ELSE IF resp.shape = "noidlist" THEN [outcome |-> "RuntimeError", ret |-> NoValue]
    ELSE IF resp.idlist = <<>> THEN [outcome |-> "RuntimeError", ret |-> NoValue]
    ELSE IF Len(resp.idlist) # 1 THEN [outcome |-> "RuntimeError", ret |-> NoValue]
    ELSE IF ~isdigit(resp.idlist[1]) THEN [outcome |-> "RuntimeError", ret |-> NoValue]
    ELSE [outcome |-> "ok", ret |-> resp.idlist[1]]

\* ---------------------------------------------------------------- efetch db=sra
MaxRuns == 2
\* the elif chain of fetch_experiment_info: child of PLATFORM, name returned
KnownPlatforms ==
    <<[tag |-> "ILLUMINA", name |-> "ilumina"],
      [tag |-> "DNBSEQ", name |-> "dnbseq"],
      [tag |-> "OXFORD_NANOPORE", name |-> "nanopore"],
      [tag |-> "PACBIO_SMRT", name |-> "pacbio"],
      [tag |-> "BGISEQ", name |-> "bgiseq"],
      [tag |-> "LS454", name |-> "454"],
      [tag |-> "ABI_SOLID", name |-> "solid"]>>
PlatformTags == {KnownPlatforms[i].tag : i \in DOMAIN KnownPlatforms} \cup {"ION_TORRENT"}
ExperimentAccs == {"SRX1", "SRX2"}
RunNames == {"SRR1", "SRR2"}
MissingFields ==
    {"none", "PRIMARY_ID", "EXPERIMENT.accession", "PLATFORM", "RUN_SET", "RUN.accession"}

\* an EXPERIMENT_PACKAGE_SET: how many packages, how many EXPERIMENTs in a
\* package, the accession attribute and the PRIMARY_ID of the experiment, the
\* child of PLATFORM and whether it holds an INSTRUMENT_MODEL, the accessions
\* of the RUNs in document order, and the one piece that is not there
CompleteDocuments ==
    [packages : {1}, experiments : {1}, accession : ExperimentAccs,
     primary_id : ExperimentAccs, platform : PlatformTags, model : BOOLEAN,
     missing : MissingFields, runs : SeqsUpTo(RunNames, MaxRuns)]
SampleDocument ==
    [packages |-> 1, experiments |-> 1, accession |-> "SRX1", primary_id |-> "SRX1",
     platform |-> "ILLUMINA", model |-> TRUE, missing |-> "none",
     runs |-> <<"SRR1", "SRR2">>]
Documents ==
    CompleteDocuments
    \cup {[SampleDocument EXCEPT !.packages = n, !.experiments = m] :
             n \in 0..2, m \in 0..2}

\* the elif chain: the first entry whose element is there and is true, which
\* for an Element means that it has children
PlatformName(doc) ==
    LET hits == {i \in DOMAIN KnownPlatforms :
                    KnownPlatforms[i].tag = doc.platform /\ doc.model}
    IN IF hits = {} THEN "RuntimeError"
       ELSE KnownPlatforms[CHOOSE i \in hits : \A j \in hits : i <= j].name

\* the run list both parsers build: one entry per RUN, in document order
RunListReversed(doc) ==
    [i \in 1..Len(doc.runs) |-> [accession |-> doc.runs[Len(doc.runs) + 1 - i]]]
RunList(doc) == [i \in 1..Len(doc.runs) |-> [accession |-> doc.runs[i]]]

Failed(outcome) == [outcome |-> outcome, ret |-> NoValue]

\* fetch_experiment_info (query_sra) from the parsed answer on
fetch_experiment_info(doc) ==
    IF doc.packages = 0 THEN Failed("RuntimeError")
    ELSE IF doc.packages # 1 THEN Failed("RuntimeError")
    ELSE IF doc.experiments # 1 THEN Failed("RuntimeError")
    ELSE IF doc.missing = "PRIMARY_ID" THEN Failed("AttributeError")
    ELSE IF doc.missing = "PLATFORM" THEN Failed("AttributeError")
    ELSE IF PlatformName(doc) = "RuntimeError" THEN Failed("RuntimeError")
    ELSE IF doc.missing = "RUN_SET" THEN Failed("AttributeError")
    ELSE IF doc.missing = "RUN.accession" /\ doc.runs # <<>> THEN Failed("KeyError")
    ELSE [outcome |-> "ok",
          ret |-> [acc |-> doc.primary_id, platform |-> PlatformName(doc),
                   runs |-> RunList(doc)]]

\* _get_data_from_sra_experiment_package (fetch_sra)
get_data_from_sra_experiment_package(doc) ==
    IF doc.experiments = 0 THEN Failed("AttributeError")
    ELSE IF doc.missing = "EXPERIMENT.accession" THEN Failed("KeyError")
    ELSE IF doc.missing = "PLATFORM" THEN Failed("TypeError")
    ELSE IF doc.missing = "RUN_SET" THEN Failed("AttributeError")
    ELSE IF doc.missing = "RUN.accession" /\ doc.runs # <<>> THEN Failed("KeyError")
    ELSE [outcome |-> "ok",
          ret |-> [acc |-> doc.accession, platform |-> doc.platform,
                   runs |-> RunList(doc)]]

\* fetch_sra_info (fetch_sra): one entry per EXPERIMENT_PACKAGE
fetch_sra_info(doc) ==
    LET one == get_data_from_sra_experiment_package(doc)
    IN IF doc.packages = 0 THEN [outcome |-> "ok", ret |-> <<>>]
       ELSE IF one.outcome # "ok" THEN one
       ELSE [outcome |-> "ok", ret |-> [i \in 1..doc.packages |-> one.ret]]

ExperimentParsers == {"query_sra.fetch_experiment_info", "fetch_sra.fetch_sra_info"}
Parse(fn, doc) ==
    IF fn = "query_sra.fetch_experiment_info" THEN fetch_experiment_info(doc)
    ELSE fetch_sra_info(doc)

\* ---------------------------------------------------------------- the calls
\* the ids the run hands to the functions
IdSamples ==
    {<<"1", "2">>, <<"P", "R", "J", "1">>, <<"p", "r", "j", "1">>,
     <<"S", "R", "X", "1">>, <<"-", "1">>, <<"+", "1">>, <<" ", "1">>,
     <<"1", "_", "0">>, <<"1", "x">>, <<"x">>, <<>>}

\* a function that takes an id is called: the check of the id
FetchCall(fn, id) ==
    /\ fetch.pc = "idle"
    /\ fetch' = [fetch EXCEPT !.fn = fn, !.id = id,
                              !.pc = IF ValidateId(fn, id) = "ok" THEN "request"
                                     ELSE "done",
                              !.outcome = IF ValidateId(fn, id) = "ok" THEN "running"
                                          ELSE ValidateId(fn, id)]
    /\ UNCHANGED <<files, dirs, meta, last, keyrun, dl, conc>>

\* the request goes out (or the cache of requests is looked up) and is answered
FetchRequest(status) ==
    /\ fetch.pc = "request"
    /\ fetch' = IF status # HttpOk /\ BadStatus(fetch.fn) # "ok"
                THEN [fetch EXCEPT !.pc = "done", !.requested = TRUE,
                                   !.status = status, !.outcome = BadStatus(fetch.fn)]
                ELSE IF fetch.fn \in ExperimentParsers
                THEN [fetch EXCEPT !.pc = "parse", !.requested = TRUE,
                                   !.status = status]
                ELSE [fetch EXCEPT !.pc = "done", !.requested = TRUE,
                                   !.status = status, !.outcome = "answered"]
    /\ UNCHANGED <<files, dirs, meta, last, keyrun, dl, conc>>

\* the answer is an EXPERIMENT_PACKAGE_SET and the function reads it
FetchParse(doc) ==
    /\ fetch.pc = "parse"
    /\ fetch' = [fetch EXCEPT !.pc = "done", !.resp = doc,
                              !.outcome = Parse(fetch.fn, doc).outcome,
                              !.ret = Parse(fetch.fn, doc).ret]
    /\ UNCHANGED <<files, dirs, meta, last, keyrun, dl, conc>>

\* _search_id_with: request, answer and reading of the answer
SearchId(status, resp) ==
    /\ fetch.pc = "idle"
    /\ fetch' = [fetch EXCEPT !.pc = "done", !.fn = "query_sra._search_id_with",
                              !.requested = TRUE, !.status = status, !.resp = resp,
                              !.outcome = search_id_with(status, resp).outcome,
                              !.ret = search_id_with(status, resp).ret]
    /\ UNCHANGED <<files, dirs, meta, last, keyrun, dl, conc>>

InitFetch ==
    /\ files = <<>>
    /\ meta = <<>>
    /\ dirs = {}
    /\ last = NoLast
    /\ keyrun = NoKeyRun
    /\ dl = NoDownload
    /\ fetch = FetchBlank("idle")
    /\ conc = NoConc

NextFetch ==
    \/ \E fn \in IdFunctions, id \in IdSamples : FetchCall(fn, id)
    \/ \E status \in StatusCodes : FetchRequest(status)
    \/ \E doc \in Documents : FetchParse(doc)
    \/ \E status \in StatusCodes, resp \in SearchResponses : SearchId(status, resp)

SpecFetch == InitFetch /\ [][NextFetch]_vars


\* ================================================================ two callers
\* Two processes call the cache for the same key; each step below is one
\* system call or one call of the callable, and the steps of the two interleave.
Procs == {1, 2}
\* the bytes one write() call carries
ChunkSize == 2
\* what the callable may return: pickles of different lengths
RaceResults == {Int1, Str11}
RaceKinds == {"cache_call", "get_result"}

\* the test at the head of the call: take the read path
RaceUseStored(kind, exists) ==
    IF kind = "cache_call" THEN CallUseStored(exists) ELSE UseStored(FALSE, exists)
\* the bytes the call writes for value r
RaceBytes(kind, gz, r) ==
    IF kind = "cache_call" THEN PickleDumps(r) ELSE SaveBytes(r, gz)
\* what the call makes of the bytes it finds
RaceRead(kind, b) == IF kind = "cache_call" THEN Unpickle(b) ELSE LoadBytes(b)

\* what the call returns after it wrote: the value of its own invocation
ReturnedStored(kind, own, file) == RaceRead(kind, file).ret
Returned(kind, own, file) == own

\* a file opened with "wb" and written at offset off: the bytes under the
\* chunk are replaced, a gap before it reads as zeros, what lies behind stays
WriteAt(file, off, chunk) ==
    LET padded == file \o [i \in 1..(off - Len(file)) |-> "\\x00"]
    IN SubSeq(padded, 1, off) \o chunk
       \o SubSeq(padded, off + Len(chunk) + 1, Len(padded))

ProcBlank ==
    [pc |-> "idle", absent |-> FALSE, invoked |-> 0, own |-> NoValue,
     bytes |-> <<>>, off |-> 0, alone |-> FALSE, read |-> <<>>, readtorn |-> FALSE,
     readfull |-> <<>>, outcome |-> "none", ret |-> NoValue]
RaceBlank(kind, gz) ==
    [pc |-> "on", kind |-> kind, gz |-> gz, exists |-> FALSE, file |-> <<>>,
     proc |-> [p \in Procs |-> ProcBlank], last_writer |-> 0,
     torn |-> FALSE, tornfull |-> <<>>]

\* cache_path.exists()
RaceCheck(p) ==
    /\ conc.pc = "on" /\ conc.proc[p].pc = "idle"
    /\ conc' = [conc EXCEPT !.proc[p].absent = ~conc.exists,
                            !.proc[p].pc =
                               IF RaceUseStored(conc.kind, conc.exists)
                               THEN "load" ELSE "invoke"]
    /\ UNCHANGED <<files, dirs, meta, last, keyrun, dl, fetch>>

\* the read path: open the file, read it, unpickle, return
RaceLoad(p) ==
    /\ conc.pc = "on" /\ conc.proc[p].pc = "load"
    /\ conc' = [conc EXCEPT !.proc[p].pc = "done",
                            !.proc[p].read = conc.file,
                            !.proc[p].readtorn = conc.torn,
                            !.proc[p].readfull = conc.tornfull,
                            !.proc[p].outcome = RaceRead(conc.kind, conc.file).outcome,
                            !.proc[p].ret = RaceRead(conc.kind, conc.file).ret]
    /\ UNCHANGED <<files, dirs, meta, last, keyrun, dl, fetch>>

\* funct(...) returns r
RaceInvoke(p, r) ==
    /\ conc.pc = "on" /\ conc.proc[p].pc = "invoke"
    /\ conc' = [conc EXCEPT !.proc[p].pc = "open",
                            !.proc[p].invoked = 1,
                            !.proc[p].own = r,
                            !.proc[p].bytes = RaceBytes(conc.kind, conc.gz, r)]
    /\ UNCHANGED <<files, dirs, meta, last, keyrun, dl, fetch>>

\* open(cache_path, "wb"): the path exists from now on, empty
RaceOpen(p) ==
    /\ conc.pc = "on" /\ conc.proc[p].pc = "open"
    /\ conc' = [conc EXCEPT !.exists = TRUE, !.file = <<>>, !.torn = FALSE,
                            !.proc = [q \in Procs |->
                                        IF q = p
                                        THEN [conc.proc[p] EXCEPT !.pc = "write",
                                                                  !.off = 0,
                                                                  !.alone = TRUE]
                                        ELSE [conc.proc[q] EXCEPT !.alone = FALSE]]]
    /\ UNCHANGED <<files, dirs, meta, last, keyrun, dl, fetch>>

\* one write() of the buffered bytes; after the last one the file is closed
\* and the call returns the value of its own invocation
RaceWrite(p) ==
    LET me == conc.proc[p]
        upto == Min(me.off + ChunkSize, Len(me.bytes))
        chunk == SubSeq(me.bytes, me.off + 1, upto)
    IN /\ conc.pc = "on" /\ me.pc = "write"
       /\ conc' = [conc EXCEPT
                     !.file = WriteAt(conc.file, me.off, chunk),
                     !.torn = FALSE,
                     !.last_writer = p,
                     !.proc = [q \in Procs |->
                                 IF q # p THEN [conc.proc[q] EXCEPT !.alone = FALSE]
                                 ELSE IF upto = Len(me.bytes)
                                 THEN [me EXCEPT
                                         !.off = upto, !.pc = "done",
                                         !.outcome = "ok",
                                         !.ret = Returned(conc.kind, me.own,
                                                    WriteAt(conc.file, me.off, chunk))]
                                 ELSE [me EXCEPT !.off = upto]]]
       /\ UNCHANGED <<files, dirs, meta, last, keyrun, dl, fetch>>

\* the process dies between open and the last write
RaceCrash(p) ==
    /\ conc.pc = "on" /\ conc.proc[p].pc = "write"
    /\ conc' = [conc EXCEPT !.proc[p].pc = "crashed",
                            !.torn = conc.proc[p].alone,
                            !.tornfull = IF conc.proc[p].alone
                                         THEN conc.proc[p].bytes ELSE <<>>]
    /\ UNCHANGED <<files, dirs, meta, last, keyrun, dl, fetch>>

\* a later call for the same key, by a new process
RaceAgain(p) ==
    /\ conc.pc = "on" /\ conc.proc[p].pc \in {"done", "crashed"}
    /\ conc' = [conc EXCEPT !.proc[p] = ProcBlank]
    /\ UNCHANGED <<files, dirs, meta, last, keyrun, dl, fetch>>

InitRace ==
    /\ files = <<>>
    /\ meta = <<>>
    /\ dirs = {}
    /\ last = NoLast
    /\ keyrun = NoKeyRun
    /\ dl = NoDownload
    /\ fetch = NoFetch
    /\ \E kind \in RaceKinds, gz \in BOOLEAN :
          /\ gz => kind = "get_result"
          /\ conc = RaceBlank(kind, gz)

NextRace ==
    \/ \E p \in Procs : RaceCheck(p)
    \/ \E p \in Procs : RaceLoad(p)
    \/ \E p \in Procs, r \in RaceResults : RaceInvoke(p, r)
    \/ \E p \in Procs : RaceOpen(p)
    \/ \E p \in Procs : RaceWrite(p)
    \/ \E p \in Procs : RaceCrash(p)
    \/ \E p \in Procs : RaceAgain(p)

SpecRace == InitRace /\ [][NextRace]_vars


\* ================================================================ claims
EntryOps == {"get_result", "get_cached_result_from_dir", "cache_call"}
\* the last operation was a cached call that did not force a refresh and
\* got as far as its cache path
PlainCall == last.op \in EntryOps /\ ~last.update /\ last.path # NoPath

\* C1: a cached call without forced refresh whose path exists returns the
\* stored value and does not invoke the callable; one whose path does not
\* exist invokes the callable once, stores what it returned and returns it;
\* so while only such calls touch a path the callable has returned at most
\* once for it and every call returns the value of that first invocation.
C1_Memoization ==
    /\ (PlainCall /\ last.existed) =>
          /\ last.invoked = 0
          /\ last.outcome = "ok"
          /\ last.ret = meta[last.path].value
          /\ ~last.wrote
    /\ (PlainCall /\ ~last.existed /\ last.outcome # "Exception") =>
          /\ last.invoked = 1
          /\ last.outcome = "ok"
          /\ last.ret = last.r
          /\ Exists(last.path)
          /\ LoadBytes(files[last.path]).outcome = "ok"
          /\ LoadBytes(files[last.path]).ret = last.r
    /\ \A p \in DOMAIN meta :
          meta[p].clean =>
             /\ meta[p].calls <= 1
             /\ (PlainCall /\ last.path = p /\ last.outcome = "ok")
                   => last.ret = meta[p].first

C1_Witness ==
    /\ last.op = "get_cached_result_from_dir"
    /\ ~last.update /\ last.existed
    /\ last.invoked = 0 /\ last.ret = Str1
    /\ meta[last.path].clean /\ meta[last.path].calls = 1

\* C2: get_result and get_cached_result_from_dir with update_cache=True
\* always invoke the callable; when it returns, the entry holds the new value
\* and a following call without update_cache returns it without invoking.
C2_ForcedRefresh ==
    (last.op \in {"get_result", "get_cached_result_from_dir"} /\ last.update) =>
       /\ last.invoked = 1
       /\ last.outcome # "Exception" =>
             /\ last.outcome = "ok" /\ last.ret = last.r /\ last.wrote
             /\ Exists(last.path)
             /\ \A r \in Behaviours, gz \in BOOLEAN :
                   /\ get_result(files, last.path, r, gz, FALSE).invoked = 0
                   /\ get_result(files, last.path, r, gz, FALSE).outcome = "ok"
                   /\ get_result(files, last.path, r, gz, FALSE).ret = last.r

C2_Witness ==
    /\ last.op = "get_cached_result_from_dir"
    /\ last.update /\ last.existed /\ last.wrote
    /\ last.ret = Int1

\* C3: what save_cache wrote, with use_gzip True or False, load_cache reads
\* back as the value saved, finding the format itself.
C3_RoundTrip ==
    /\ last.op = "save_cache" =>
          /\ IsGzip(files[last.path]) = last.gz
          /\ load_cache(files, last.path).outcome = "ok"
          /\ load_cache(files, last.path).ret = meta[last.path].value
    /\ (last.op = "load_cache" /\ last.existed) =>
          /\ last.outcome = "ok"
          /\ last.ret = meta[last.path].value

C3_Witness ==
    /\ last.op = "load_cache" /\ last.existed
    /\ ~IsGzip(files[last.path])
    /\ last.ret = Str1

KwSet(kwargs) == {kwargs[i] : i \in DOMAIN kwargs}
SameArguments(a, b) == a.args = b.args /\ KwSet(a.kwargs) = KwSet(b.kwargs)

\* C4: two calls of the same function with the same positional arguments and
\* the same keyword arguments, in whatever order the keywords were passed,
\* get the same hash and the same cache path.
C4_KeyDeterminism ==
    (keyrun.stage = "two" /\ SameArguments(keyrun.a, keyrun.b)) =>
       /\ keyrun.a.hash = keyrun.b.hash
       /\ keyrun.a.gz = keyrun.b.gz => keyrun.a.path = keyrun.b.path

C4_Witness ==
    /\ keyrun.stage = "two" /\ keyrun.kind = "cache_call"
    /\ SameArguments(keyrun.a, keyrun.b)
    /\ keyrun.a.kwargs # keyrun.b.kwargs
    /\ keyrun.a.kwargs[1][2] # keyrun.a.kwargs[2][2]
    /\ keyrun.a.path = keyrun.b.path

\* C5: two calls of the same function whose arguments differ get different
\* cache paths.
C5_KeySeparation ==
    (keyrun.stage = "two" /\ ~SameArguments(keyrun.a, keyrun.b)) =>
       keyrun.a.path # keyrun.b.path

\* C6: an entry written by a call with use_gzip=True is gzip-wrapped, one
\* written with use_gzip=False is a raw pickle.
C6_GzipFlagHonoured ==
    (last.wrote /\ last.op \in {"save_cache", "get_result",
                                "get_cached_result_from_dir"}) =>
       IsGzip(files[last.path]) = last.gz

\* C7: a cached call with an unhashable argument fails with ValueError
\* before the callable is invoked and before any directory or entry is made.
C7_UnhashableRejected ==
    last.unhashable =>
       /\ last.outcome = "ValueError"
       /\ last.invoked = 0
       /\ ~last.changed

\* C8: load_cache on a missing path raises MissingCachedResult and reads
\* nothing; get_result never ends in MissingCachedResult: on a missing path
\* it calls the function.
C8_MissingSignal ==
    /\ (last.op = "load_cache" /\ ~last.existed) =>
          last.outcome = "MissingCachedResult" /\ last.ret = NoValue
    /\ \A p \in DirectPaths \ DOMAIN files :
          /\ load_cache(files, p).outcome = "MissingCachedResult"
          /\ ~load_cache(files, p).read
    /\ last.op \in {"get_result", "get_cached_result_from_dir"} =>
          /\ last.outcome # "MissingCachedResult"
          /\ ~last.existed => last.invoked = 1

C8_Witness ==
    /\ last.op = "get_result" /\ ~last.existed /\ ~last.update
    /\ last.invoked = 1 /\ last.outcome = "ok"

\* C9: no operation removes a cache file, and the bytes of an existing file
\* change only in a save_cache or a call with update_cache=True.
C9_NeverExpire ==
    [][/\ DOMAIN files \subseteq DOMAIN files'
       /\ \A p \in DOMAIN files :
             files'[p] # files[p] => (last'.op = "save_cache" \/ last'.update)]_vars

C9_Witness ==
    /\ last.op = "_get_cached_request" /\ last.existed
    /\ last.invoked = 0 /\ last.ret = BytesA

\* C10: when out_dir is missing or no directory the call ends in ValueError,
\* and when it holds a name that starts with the run accession it ends in an
\* error; in both cases no temporary directory was made, no subprocess was
\* started and out_dir is as it was.
C10_Refused ==
    LET bad == dl.kind # "dir"
        old == \E n \in dl.before : \E k \in 0..Len(n) : SubSeq(n, 1, k) = dl.acc
    IN (dl.pc \notin {"off", "idle"} /\ (bad \/ old)) =>
          /\ dl.pc = "done"
          /\ dl.outcome = IF bad THEN "ValueError" ELSE "RuntimeError"
          /\ ~dl.made /\ ~dl.work
          /\ dl.procs = <<>>
          /\ dl.entries = dl.before

C10_Witness ==
    /\ dl.pc = "done" /\ dl.kind = "dir"
    /\ dl.acc = <<"R", "1">>
    /\ dl.before = {<<"R", "1", "2">>, <<"x">>}
    /\ dl.outcome = "RuntimeError"

\* ---------------------------------------------------------------------------
\* Claims about download_fastq_from_sra, under SpecDownload

\* the subprocesses of the call so far that exited non-zero
FailedProcs == {i \in DOMAIN dl.procs : dl.procs[i][2] # 0}
ProcsNamed(name) == {i \in DOMAIN dl.procs : dl.procs[i][1] = name}

\* C11: a non-zero exit status of any subprocess of a download is a failure of
\* the call: a call that ran a subprocess which exited non-zero does not
\* return normally.
C11_NonZeroIsFailure ==
    (dl.pc = "done" /\ FailedProcs # {}) => dl.outcome # "ok"

\* C12: when prefetch, vdb-validate or fasterq-dump fails, the raised error is
\* a RuntimeError or a CalledProcessError whose message carries the command
\* and the captured standard output and standard error of that process.
C12_FailureReport ==
    (dl.pc = "done"
     /\ \E i \in FailedProcs :
            dl.procs[i][1] \in {"prefetch", "vdb-validate", "fasterq-dump"})
    => /\ dl.outcome \in {"RuntimeError", "CalledProcessError"}
       /\ dl.msg.cmd
       /\ dl.msg.stdout = dl.out
       /\ dl.msg.stderr = dl.err

\* the place of each subprocess in the order of the steps
StepRank(name) ==
    CASE name = "prefetch" -> 1
      [] name = "vdb-validate" -> 2
      [] name = "fasterq-dump" -> 3
      [] name = "pigz" -> 4
      [] name = "mv" -> 5

\* C18: the steps of a download run in the order prefetch, vdb-validate,
\* fasterq-dump, compression of every converted file, move; a step starts only
\* after every earlier step succeeded; nothing reaches out_dir unless the four
\* earlier steps all succeeded, and a failure of one of them leaves out_dir as
\* it was and the working directory removed.
C18_StepOrder ==
    /\ \A i, j \in DOMAIN dl.procs :
          i < j => /\ StepRank(dl.procs[i][1]) <= StepRank(dl.procs[j][1])
                   /\ dl.procs[i][1] # "mv" => dl.procs[i][2] = 0
    /\ \A name \in {"prefetch", "vdb-validate", "fasterq-dump"} :
          Cardinality(ProcsNamed(name)) <= 1
    /\ (dl.pc # "off" /\ dl.entries # dl.before) =>
          /\ \A name \in {"prefetch", "vdb-validate", "fasterq-dump"} :
                \E i \in ProcsNamed(name) : dl.procs[i][2] = 0
          /\ Cardinality(ProcsNamed("pigz")) = Cardinality(dl.conv)
          /\ \A i \in ProcsNamed("pigz") : dl.procs[i][2] = 0
    /\ (\E i \in FailedProcs : dl.procs[i][1] # "mv") =>
          /\ dl.pc = "done"
          /\ dl.outcome \notin {"ok", "running", "none"}
          /\ dl.entries = dl.before
          /\ ~dl.work

\* the compression of the second converted file fails after the first worked
C18_Witness ==
    /\ dl.pc = "done"
    /\ Len(dl.procs) = 5
    /\ dl.procs[4] = <<"pigz", 0>>
    /\ dl.procs[5] = <<"pigz", 1>>
    /\ dl.entries = dl.before
    /\ ~dl.work

\* ---------------------------------------------------------------------------
\* Failures of the callable, under Spec

\* the last operation was a cached call whose callable raised
CallableRaised == last.op \in EntryOps /\ last.invoked = 1 /\ last.r = Raises

\* a call for the key of the last operation that does not force a refresh
\* would invoke the callable, whatever the callable then does
NextCallInvokes ==
    \A r \in Behaviours :
       IF last.op = "cache_call"
       THEN cache_call(files, last.path, r).invoked = 1
       ELSE \A gz \in BOOLEAN : get_result(files, last.path, r, gz, FALSE).invoked = 1

\* C19 as stated: when the callable raises the exception reaches the caller,
\* no entry is created or changed and the next call with the same key invokes
\* the callable again.
C19_NextCallInvokes ==
    CallableRaised =>
       /\ last.outcome = "Exception"
       /\ ~last.wrote
       /\ NextCallInvokes

\* C19 amended: when the callable raises the exception reaches the caller and
\* no entry is created or changed, so the path exists afterwards exactly when
\* it existed before; when it did not exist the next call with the same key
\* invokes the callable again, and when it did (the failing call forced a
\* refresh) the older entry is still served without an invocation; and
\* _get_cached_request writes an entry only after a status-200 response, whose
\* body is what the entry then holds.
C19_FailuresNotMemoized ==
    /\ CallableRaised =>
          /\ last.outcome = "Exception"
          /\ ~last.wrote
          /\ Exists(last.path) <=> last.existed
          /\ ~last.existed => NextCallInvokes
          /\ last.existed =>
                /\ last.update
                /\ \A r \in Behaviours, gz \in BOOLEAN :
                      /\ get_result(files, last.path, r, gz, FALSE).invoked = 0
                      /\ get_result(files, last.path, r, gz, FALSE).ret
                            = load_cache(files, last.path).ret
    /\ (last.op = "_get_cached_request" /\ last.invoked = 1) =>
          IF last.r = Raises
          THEN /\ last.outcome = "AssertionError"
               /\ ~last.wrote
               /\ last.path # NoPath => (Exists(last.path) <=> last.existed)
          ELSE /\ last.outcome = "ok"
               /\ last.wrote =>
                     /\ LoadBytes(files[last.path]).outcome = "ok"
                     /\ LoadBytes(files[last.path]).ret = last.r

\* a forced refresh raised over an entry that a call had stored before
C19_Witness ==
    /\ CallableRaised
    /\ last.update /\ last.existed
    /\ MetaOf(last.path).value = Int1
    /\ load_cache(files, last.path).ret = Int1

\* ---------------------------------------------------------------------------
\* Claims about the NCBI queries, under SpecFetch

\* C13: every function that takes a numeric id accepts it only when it is
\* made of decimal digits only, and raises ValueError for every other id
\* before a request is sent or the cache of requests is touched.
C13_OnlyDigitsAccepted ==
    (fetch.pc \notin {"off", "idle"} /\ fetch.fn \in IdFunctions
     /\ ~isdigit(fetch.id)) =>
       /\ fetch.outcome = "ValueError"
       /\ ~fetch.requested

\* the idlist of the answer holds exactly one id and it is all digits
OneDigitId(resp) ==
    resp.shape = "idlist" /\ Len(resp.idlist) = 1 /\ isdigit(resp.idlist[1])

\* the document has a shape that fetch_experiment_info does not expect
UnexpectedDocument(doc) ==
    \/ doc.packages # 1
    \/ doc.experiments # 1
    \/ doc.platform \notin {KnownPlatforms[i].tag : i \in DOMAIN KnownPlatforms}
    \/ doc.missing \in {"PRIMARY_ID", "PLATFORM", "RUN_SET"}
    \/ doc.missing = "RUN.accession" /\ doc.runs # <<>>

\* C14: _search_id_with returns the id when the idlist holds exactly one
\* all-digit id and raises RuntimeError for every other answer;
\* fetch_experiment_info raises RuntimeError for zero or several packages,
\* for a package without exactly one EXPERIMENT, for an unknown platform and
\* for a missing field.
C14_ShapeIsRuntimeError ==
    /\ (fetch.pc = "done" /\ fetch.fn = "query_sra._search_id_with"
        /\ fetch.status = HttpOk) =>
          IF OneDigitId(fetch.resp)
          THEN fetch.outcome = "ok" /\ fetch.ret = fetch.resp.idlist[1]
          ELSE fetch.outcome = "RuntimeError"
    /\ (fetch.pc = "done" /\ fetch.fn = "query_sra.fetch_experiment_info"
        /\ fetch.resp # NoResponse /\ UnexpectedDocument(fetch.resp)) =>
          fetch.outcome = "RuntimeError"

\* a record as NCBI writes it: one package, one experiment, nothing missing,
\* the PRIMARY_ID of the experiment is its accession attribute, the platform
\* element carries its INSTRUMENT_MODEL
WellFormed(doc) ==
    /\ doc.packages = 1 /\ doc.experiments = 1
    /\ doc.missing = "none"
    /\ doc.primary_id = doc.accession
    /\ doc.model

\* what a parser returned for the one experiment of the answer
Parsed == IF fetch.fn = "fetch_sra.fetch_sra_info" THEN fetch.ret[1] ELSE fetch.ret

\* C15: for an answer with one EXPERIMENT_PACKAGE holding one EXPERIMENT the
\* parser returns the accession of the experiment, the platform that the
\* child of PLATFORM names (different children give different platforms, and
\* fetch_experiment_info knows the seven listed ones), and one run per RUN of
\* RUN_SET, in document order, each with the accession of its RUN.
C15_ExperimentParsed ==
    /\ \A i, j \in DOMAIN KnownPlatforms :
          KnownPlatforms[i].name = KnownPlatforms[j].name => i = j
    /\ (fetch.pc = "done" /\ fetch.fn \in ExperimentParsers
        /\ fetch.resp # NoResponse /\ WellFormed(fetch.resp)
        /\ (fetch.fn = "query_sra.fetch_experiment_info"
               => fetch.resp.platform # "ION_TORRENT")) =>
          /\ fetch.outcome = "ok"
          /\ fetch.fn = "fetch_sra.fetch_sra_info" => Len(fetch.ret) = 1
          /\ Parsed.acc = fetch.resp.accession
          /\ IF fetch.fn = "fetch_sra.fetch_sra_info"
             THEN Parsed.platform = fetch.resp.platform
             ELSE \E i \in DOMAIN KnownPlatforms :
                     /\ KnownPlatforms[i].tag = fetch.resp.platform
                     /\ KnownPlatforms[i].name = Parsed.platform
          /\ Len(Parsed.runs) = Len(fetch.resp.runs)
          /\ \A i \in DOMAIN fetch.resp.runs :
                Parsed.runs[i].accession = fetch.resp.runs[i]

\* fetch_experiment_info read a DNBSEQ experiment with two different runs
C15_Witness ==
    /\ fetch.pc = "done" /\ fetch.fn = "query_sra.fetch_experiment_info"
    /\ fetch.resp # NoResponse /\ WellFormed(fetch.resp)
    /\ fetch.resp.platform = "DNBSEQ"
    /\ fetch.resp.runs = <<"SRR2", "SRR1">>
    /\ fetch.outcome = "ok"
    /\ fetch.ret.platform = "dnbseq"

\* ---------------------------------------------------------------------------
\* Claims about two callers of one key, under SpecRace

\* the call of p found the path absent and has returned
ComputedAndDone(p) ==
    conc.proc[p].pc = "done" /\ conc.proc[p].absent

\* C16: nothing keeps two calls for the same key apart: both may find the
\* path absent; a call that found it absent invokes the callable and writes
\* the entry whatever the other does, and returns the value of its own
\* invocation; when both have returned, the entry holds the value of the one
\* that wrote last, provided the other did not write into the file meanwhile.
C16_RaceToWrite ==
    conc.pc = "on" =>
       /\ \A p \in Procs :
             /\ (conc.proc[p].absent /\ conc.proc[p].pc \in {"open", "write", "done"})
                   => conc.proc[p].invoked = 1
             /\ ComputedAndDone(p) =>
                   /\ conc.proc[p].outcome = "ok"
                   /\ conc.proc[p].ret = conc.proc[p].own
                   /\ conc.proc[p].off = Len(conc.proc[p].bytes)
       /\ (\A p \in Procs : ComputedAndDone(p)) =>
             /\ conc.last_writer \in Procs
             /\ conc.proc[conc.last_writer].alone =>
                   /\ RaceRead(conc.kind, conc.file).outcome = "ok"
                   /\ RaceRead(conc.kind, conc.file).ret
                         = conc.proc[conc.last_writer].own

\* both found the path absent, computed different values and wrote them; the
\* entry holds the value of the second writer
C16_Witness ==
    /\ conc.pc = "on"
    /\ \A p \in Procs : ComputedAndDone(p) /\ conc.proc[p].invoked = 1
    /\ conc.proc[1].ret = Str11 /\ conc.proc[2].ret = Int1
    /\ conc.last_writer = 2 /\ conc.proc[2].alone
    /\ RaceRead(conc.kind, conc.file).ret = Int1

\* the call of p found the path, read what a crashed writer left, and returned
ReadPartial(p) ==
    conc.proc[p].pc = "done" /\ ~conc.proc[p].absent /\ conc.proc[p].readtorn

IsProperPrefix(b, full) == Len(b) < Len(full) /\ b = SubSeq(full, 1, Len(b))

\* what holds in every state: the path exists from the open on, a crashed
\* writer leaves a proper prefix of its entry, a call that finds the path
\* does not invoke the callable and does not write
C17_InPlace ==
    conc.pc = "on" =>
       /\ \A p \in Procs :
             /\ conc.proc[p].pc = "write" => conc.exists
             /\ (~conc.proc[p].absent /\ conc.proc[p].pc # "idle") =>
                   /\ conc.proc[p].pc \in {"load", "done"}
                   /\ conc.proc[p].invoked = 0
                   /\ conc.proc[p].off = 0
       /\ conc.torn => conc.exists /\ IsProperPrefix(conc.file, conc.tornfull)

OnlyTrailerMissing(b, full) == IsGzip(b) /\ b \o <<"crc">> = full

====
